---- MODULE Spec2Model ----
(***************************************************************************)
(* bevy_line_boil (src/src/lib.rs): the three Update systems of            *)
(* LineBoilPlugin acting on a Bevy world.                                  *)
(*                                                                         *)
(* The world is a forest of entities.  Each entity may carry the LineBoil  *)
(* marker, a MeshMaterial3d<StandardMaterial> handle, a                    *)
(* MeshMaterial3d<ExtendedMaterial<..>> handle and the LineBoilApplied     *)
(* tag.  Two asset stores: Assets<StandardMaterial> (filled by the host)   *)
(* and Assets<ExtendedMaterial<StandardMaterial, LineBoilMaterial>> (the   *)
(* registry this crate fills).  Commands queued by a system are applied at *)
(* the next sync point of the schedule, not while the system runs.         *)
(*                                                                         *)
(* f32 settings are kept in thousandths (0.008 is 8, 4.0 is 4000).         *)
(* An absent handle or an asset that is not loaded is 0; entity ids, asset  *)
(* handles and asset values start at 1.  An optional LineBoil component is *)
(* a sequence of length 0 or 1.                                            *)
(*                                                                         *)
(* Scope.  Host and client change the world between ticks: they spawn      *)
(* entities, insert, overwrite and remove LineBoil, attach base-material   *)
(* handles (also to entities already converted) and load assets.  They do  *)
(* not despawn entities, and the asset system's reclaiming of entries      *)
(* whose last handle was dropped is outside the crate and not modelled:    *)
(* the registry only grows.                                                *)
(***************************************************************************)
EXTENDS Naturals, Sequences, FiniteSets

\* ---- bounds of the model
MaxNodes == 3
NumHandles == 2
MaxTime == 1
MaxHostOps == 4

Node == 1..MaxNodes
Handle == 1..NumHandles

\* ---- LineBoilSettings and the LineBoil constructors (lib.rs 86-227)
LineBoilSettings_default ==
    [intensity |-> 20, frame_rate |-> 6000, noise_frequency |-> 8000,
     seed |-> 0, time |-> 0]

LineBoil_new == LineBoilSettings_default

\* aggressive() with the values of frame_rate and noise_frequency exchanged.
LineBoil_aggressive_swapped ==
    [intensity |-> 40, frame_rate |-> 12000, noise_frequency |-> 4000,
     seed |-> 0, time |-> 0]

LineBoil_aggressive ==
    [intensity |-> 40, frame_rate |-> 4000, noise_frequency |-> 12000,
     seed |-> 0, time |-> 0]

LineBoil_subtle ==
    [intensity |-> 8, frame_rate |-> 8000, noise_frequency |-> 6000,
     seed |-> 0, time |-> 0]

with_intensity(self, intensity) == [self EXCEPT !.intensity = intensity]

with_frame_rate(self, fps) == [self EXCEPT !.frame_rate = fps]

with_noise_frequency(self, freq) == [self EXCEPT !.noise_frequency = freq]

with_seed(self, seed) == [self EXCEPT !.seed = seed]

\* The values the client passes to the with_* methods in this model.
BuilderInputs == {0, 8, 1000}

\* A LineBoil fresh from the constructor ctor: value is its settings, set
\* the fields overridden since by with_* calls.
Constructed(ctor, settings) == [ctor |-> ctor, value |-> settings, set |-> {}]

\* The markers the client attaches in this model: they differ in each of
\* the four parameters that are copied into a composed material.
MarkerChoices == {LineBoil_subtle, with_seed(LineBoil_aggressive, 1000)}

\* The four non-time fields of a settings value.
Params(s) == <<s.intensity, s.frame_rate, s.noise_frequency, s.seed>>

VARIABLES
    spawned,              \* entities 1..spawned exist
    parent,               \* ChildOf: parent[n] = 0 for a root
    line_boil,            \* LineBoil component: <<settings>>, or <<>>
    mesh_std,             \* MeshMaterial3d<StandardMaterial>: handle, or 0
    mesh_ext,             \* MeshMaterial3d<ExtendedMaterial>: registry id, or 0
    line_boil_applied,    \* LineBoilApplied tag
    standard_materials,   \* Assets<StandardMaterial>: value, or 0 (not loaded)
    line_boil_materials,  \* Assets<ExtendedMaterial<..>>: id -> [base, settings]
    elapsed,              \* Time::elapsed_secs() of the current tick
    commands,             \* the Commands queue awaiting the next sync point
    pc,                   \* position in the Update schedule
    updated,              \* update_line_boil_time has run in this tick
    host_ops,             \* changes host and client have made so far
    created,              \* history: registry insertions made for each node
    eligible,             \* history: untagged, resolvable, marked-subtree nodes at tick start
    exposed,              \* history: nodes with a resolvable base reference at tick start
    deferred,             \* history: nodes the last traversal skipped as unresolvable
    retry,                \* history: nodes deferred in the previous tick, eligible in this one
    visits,               \* history: calls of the traversal per node in this tick
    builder               \* the LineBoil value the client is building

world == <<spawned, parent, line_boil, mesh_std, mesh_ext, line_boil_applied>>
history == <<created, eligible, exposed, deferred, retry, visits>>
vars == <<spawned, parent, line_boil, mesh_std, mesh_ext, line_boil_applied,
          standard_materials, line_boil_materials, elapsed, commands, pc,
          updated, host_ops, created, eligible, exposed, deferred, retry,
          visits, builder>>

\* Everything but the client's builder.
scene == <<spawned, parent, line_boil, mesh_std, mesh_ext, line_boil_applied,
           standard_materials, line_boil_materials, elapsed, commands, pc,
           updated, host_ops, created, eligible, exposed, deferred, retry,
           visits>>

Alive == 1..spawned

\* ---- the hierarchy
\* Children component: the children of n in the order they were attached
\* (ids are allocated in spawn order, so ascending id).
RECURSIVE ChildrenFrom(_, _)
ChildrenFrom(n, m) ==
    IF m > spawned THEN <<>>
    ELSE IF parent[m] = n THEN <<m>> \o ChildrenFrom(n, m + 1)
    ELSE ChildrenFrom(n, m + 1)

Children(n) == ChildrenFrom(n, 1)

\* n and its ancestors.
RECURSIVE AncestorsOrSelf(_)
AncestorsOrSelf(n) ==
    IF parent[n] = 0 THEN {n} ELSE {n} \cup AncestorsOrSelf(parent[n])

\* The marked entities whose traversal visits n.
MarkedAbove(n) == {r \in AncestorsOrSelf(n) : line_boil[r] # <<>>}

\* standard_materials.get(handle) is Some.
Resolvable(h) == h # 0 /\ standard_materials[h] # 0

\* ---- queries (evaluated on the world as it is when the system runs)
\* mesh_query with its Without<LineBoilApplied> filter left out.
mesh_query_get_unfiltered(entity) == mesh_std[entity] # 0

\* mesh_query.get(entity): (Entity, &MeshMaterial3d<StandardMaterial>),
\* Without<LineBoilApplied>.
mesh_query_get(entity) == mesh_std[entity] # 0 /\ ~line_boil_applied[entity]

\* cleanup's query confined to the subtrees of the entities that carry LineBoil.
cleanup_query_marked ==
    {n \in 1..spawned :
        /\ line_boil_applied[n]
        /\ mesh_std[n] # 0
        /\ \E r \in AncestorsOrSelf(n) : line_boil[r] # <<>>}

\* cleanup's query with its With<LineBoilApplied> filter left out.
cleanup_query_unfiltered == {n \in 1..spawned : mesh_std[n] # 0}

\* cleanup's query: With<LineBoilApplied>, With<MeshMaterial3d<StandardMaterial>>.
cleanup_query ==
    {n \in Alive : line_boil_applied[n] /\ mesh_std[n] # 0}

\* root_query: the entities carrying LineBoil.
root_query == {n \in Alive : line_boil[n] # <<>>}

\* The orders in which root_query.iter() may yield the roots (Bevy does not
\* specify one).
RootOrders ==
    {o \in [1..Cardinality(root_query) -> root_query] :
        \A i, j \in DOMAIN o : o[i] = o[j] => i = j}

\* ---- commands
ReplaceCommand(entity, new_handle) ==
    [kind |-> "replace", entity |-> entity, handle |-> new_handle]

RemoveCommand(entity) ==
    [kind |-> "remove_std", entity |-> entity, handle |-> 0]

\* The replace chain with only its insert of the new handle: the base
\* reference stays and no tag is set.
ApplyCommand_InsertOnly(w, c) ==
    IF c.kind = "replace"
    THEN [w EXCEPT !.ext[c.entity] = c.handle]
    ELSE [w EXCEPT !.std[c.entity] = 0]

\* The replace chain without its insert of the new handle.
ApplyCommand_NoInsert(w, c) ==
    IF c.kind = "replace"
    THEN [std |-> [w.std EXCEPT ![c.entity] = 0],
          ext |-> w.ext,
          tag |-> [w.tag EXCEPT ![c.entity] = TRUE]]
    ELSE [w EXCEPT !.std[c.entity] = 0]

\* The removal of the base reference taking the processed tag with it.
ApplyCommand_RemoveTag(w, c) ==
    IF c.kind = "replace"
    THEN [std |-> [w.std EXCEPT ![c.entity] = 0],
          ext |-> [w.ext EXCEPT ![c.entity] = c.handle],
          tag |-> [w.tag EXCEPT ![c.entity] = TRUE]]
    ELSE [w EXCEPT !.std[c.entity] = 0, !.tag[c.entity] = FALSE]

\* One queued EntityCommands chain applied to the components w = [std, ext, tag].
ApplyCommand(w, c) ==
    IF c.kind = "replace"
    THEN [std |-> [w.std EXCEPT ![c.entity] = 0],
          ext |-> [w.ext EXCEPT ![c.entity] = c.handle],
          tag |-> [w.tag EXCEPT ![c.entity] = TRUE]]
    ELSE [w EXCEPT !.std[c.entity] = 0]

\* The sync point: the queue applied in order.
RECURSIVE ApplyDeferred(_, _)
ApplyDeferred(w, q) ==
    IF q = <<>> THEN w ELSE ApplyDeferred(ApplyCommand(w, Head(q)), Tail(q))

Components == [std |-> mesh_std, ext |-> mesh_ext, tag |-> line_boil_applied]

\* ---- the traversal
\* The composed material built with LineBoilMaterial::default() instead of
\* the marker's settings.
ExtendedMaterial_default(std_mat, settings) ==
    [base |-> std_mat, settings |-> LineBoilSettings_default]

\* Assets::add: the new entry gets the next id.
ExtendedMaterial(std_mat, settings) == [base |-> std_mat, settings |-> settings]

\* The conversion going ahead with an empty base (0) when the handle does
\* not resolve, instead of skipping the entity.
Convert_DefaultBase(entity, settings, acc) ==
    IF mesh_std[entity] # 0 /\ ~line_boil_applied[entity]
    THEN LET base == IF Resolvable(mesh_std[entity])
                     THEN standard_materials[mesh_std[entity]] ELSE 0
             materials == Append(acc.materials,
                                 [base |-> base, settings |-> settings])
         IN  [acc EXCEPT
                 !.materials = materials,
                 !.commands = Append(acc.commands,
                     [kind |-> "replace", entity |-> entity,
                      handle |-> Len(materials)])]
    ELSE acc

\* The conversion of one entity: acc = [materials, commands, visited], the
\* registry, the command queue and the number of calls made for each entity.
Convert(entity, settings, acc) ==
    IF mesh_query_get(entity) /\ Resolvable(mesh_std[entity])
    THEN LET extended == ExtendedMaterial(standard_materials[mesh_std[entity]], settings)
             materials == Append(acc.materials, extended)
         IN  [acc EXCEPT
                 !.materials = materials,
                 !.commands = Append(acc.commands,
                                     ReplaceCommand(entity, Len(materials)))]
    ELSE acc

\* The children loop left out: only the entity itself is looked at.
TraverseChildren_none(children, settings, acc) == acc

\* A call of traverse_and_replace_materials for entity is entered.
Visit(entity, acc) == [acc EXCEPT !.visited[entity] = @ + 1]

\* The accumulator a run of the system starts with.
StartOfRun(materials) ==
    [materials |-> materials, commands |-> <<>>,
     visited |-> [n \in Node |-> 0]]

RECURSIVE traverse_and_replace_materials(_, _, _)
RECURSIVE TraverseChildren(_, _, _)
\* The children loop ending after its first iteration.
TraverseChildren_first(children, settings, acc) ==
    IF children = <<>> THEN acc
    ELSE traverse_and_replace_materials(Head(children), settings, acc)

\* The call returning early, before the children loop, when the entity
\* itself is not converted.
traverse_and_replace_materials_return(entity, settings, acc) ==
    LET entered == Visit(entity, acc)
        converted == Convert(entity, settings, entered)
    IN  IF converted = entered THEN entered
        ELSE TraverseChildren(Children(entity), settings, converted)

traverse_and_replace_materials(entity, settings, acc) ==
    TraverseChildren(Children(entity), settings,
                     Convert(entity, settings, Visit(entity, acc)))

TraverseChildren(children, settings, acc) ==
    IF children = <<>> THEN acc
    ELSE TraverseChildren(Tail(children), settings,
             traverse_and_replace_materials(Head(children), settings, acc))

\* for (root_entity, line_boil) in root_query.iter() { traverse(..) }
RECURSIVE TraverseRoots(_, _)
TraverseRoots(order, acc) ==
    IF order = <<>> THEN acc
    ELSE TraverseRoots(Tail(order),
             traverse_and_replace_materials(Head(order),
                 line_boil[Head(order)][1], acc))

apply_line_boil_to_marked_entities(order) ==
    TraverseRoots(order, StartOfRun(line_boil_materials))

\* Number of replace commands queued for n.
RECURSIVE CountFor(_, _)
CountFor(n, q) ==
    IF q = <<>> THEN 0
    ELSE (IF Head(q).entity = n THEN 1 ELSE 0) + CountFor(n, Tail(q))

\* The whole settings value rebuilt from the default, with the new time.
SetTime_Reset(material, current_time) ==
    [material EXCEPT
        !.settings = [LineBoilSettings_default EXCEPT !.time = current_time]]

\* ---- update_line_boil_time
SetTime(material, current_time) ==
    [material EXCEPT !.settings.time = current_time]

update_line_boil_time(materials, current_time) ==
    [i \in DOMAIN materials |-> SetTime(materials[i], current_time)]

\* ---- initial state: the world after Startup, at time 0, before the first
\* tick.  As in the crate's usage example (lib.rs 20-25) the client has
\* spawned one root entity, with a LineBoil marker or (not yet) without;
\* the scene below it, its meshes and their assets arrive later.
Init ==
    /\ spawned = 1
    /\ parent = [n \in Node |-> 0]
    /\ \E m \in {<<>>} \cup {<<c>> : c \in MarkerChoices} :
          line_boil = [n \in Node |-> IF n = 1 THEN m ELSE <<>>]
    /\ mesh_std = [n \in Node |-> 0]
    /\ mesh_ext = [n \in Node |-> 0]
    /\ line_boil_applied = [n \in Node |-> FALSE]
    /\ standard_materials = [h \in Handle |-> 0]
    /\ line_boil_materials = <<>>
    /\ elapsed = 0
    /\ commands = <<>>
    /\ pc = "idle"
    /\ updated = FALSE
    /\ host_ops = 0
    /\ created = [n \in Node |-> 0]
    /\ eligible = {}
    /\ exposed = {}
    /\ deferred = {}
    /\ retry = {}
    /\ visits = [n \in Node |-> 0]
    /\ builder = Constructed("default", LineBoilSettings_default)

\* ---- host and client, between ticks
\* The host spawns an entity, as a root (p = 0) or as the last child of p.
Spawn(p) ==
    /\ pc = "idle"
    /\ host_ops < MaxHostOps
    /\ host_ops' = host_ops + 1
    /\ spawned < MaxNodes
    /\ p \in 0..spawned
    /\ spawned' = spawned + 1
    /\ parent' = [parent EXCEPT ![spawned + 1] = p]
    /\ UNCHANGED <<builder, line_boil, mesh_std, mesh_ext, line_boil_applied,
                   standard_materials, line_boil_materials, elapsed, commands,
                   pc, updated, history>>

\* The client inserts LineBoil on n, or overwrites the one it carries.
InsertMarker(n, m) ==
    /\ pc = "idle"
    /\ host_ops < MaxHostOps
    /\ host_ops' = host_ops + 1
    /\ n \in Alive
    /\ line_boil[n] # <<m>>
    /\ line_boil' = [line_boil EXCEPT ![n] = <<m>>]
    /\ UNCHANGED <<builder, spawned, parent, mesh_std, mesh_ext, line_boil_applied,
                   standard_materials, line_boil_materials, elapsed, commands,
                   pc, updated, history>>

\* The client removes LineBoil from n.
RemoveMarker(n) ==
    /\ pc = "idle"
    /\ host_ops < MaxHostOps
    /\ host_ops' = host_ops + 1
    /\ n \in Alive
    /\ line_boil[n] # <<>>
    /\ line_boil' = [line_boil EXCEPT ![n] = <<>>]
    /\ UNCHANGED <<builder, spawned, parent, mesh_std, mesh_ext, line_boil_applied,
                   standard_materials, line_boil_materials, elapsed, commands,
                   pc, updated, history>>

\* The host attaches (or re-attaches) MeshMaterial3d<StandardMaterial>(h) to n.
AttachBase(n, h) ==
    /\ pc = "idle"
    /\ host_ops < MaxHostOps
    /\ host_ops' = host_ops + 1
    /\ n \in Alive
    /\ mesh_std[n] # h
    /\ mesh_std' = [mesh_std EXCEPT ![n] = h]
    /\ UNCHANGED <<builder, spawned, parent, line_boil, mesh_ext, line_boil_applied,
                   standard_materials, line_boil_materials, elapsed, commands,
                   pc, updated, history>>

\* The asset behind handle h finishes loading.
LoadAsset(h) ==
    /\ pc = "idle"
    /\ host_ops < MaxHostOps
    /\ host_ops' = host_ops + 1
    /\ standard_materials[h] = 0
    /\ standard_materials' = [standard_materials EXCEPT ![h] = h]
    /\ UNCHANGED <<builder, world, line_boil_materials, elapsed, commands, pc, updated,
                   history>>

\* ---- one tick of the Update schedule
\* The host samples the clock (non-decreasing) and the schedule starts.
BeginTick(t) ==
    /\ pc = "idle"
    /\ t >= elapsed
    /\ t <= MaxTime
    /\ elapsed' = t
    /\ pc' = "apply"
    /\ exposed' = {n \in Alive : Resolvable(mesh_std[n])}
    /\ eligible' = {n \in Alive : /\ mesh_query_get(n)
                                  /\ Resolvable(mesh_std[n])
                                  /\ MarkedAbove(n) # {}}
    /\ retry' = deferred \cap eligible'
    /\ UNCHANGED <<builder, world, standard_materials, line_boil_materials, commands,
                   updated, host_ops, created, deferred, visits>>

ApplySystem(order) ==
    /\ pc = "apply"
    /\ LET r == apply_line_boil_to_marked_entities(order)
       IN  /\ line_boil_materials' = r.materials
           /\ commands' = r.commands
           /\ created' = [n \in Node |-> created[n] + CountFor(n, r.commands)]
           /\ visits' = r.visited
    /\ deferred' = {n \in Alive : /\ mesh_query_get(n)
                                  /\ ~Resolvable(mesh_std[n])
                                  /\ MarkedAbove(n) # {}}
    /\ pc' = "sync1"
    /\ UNCHANGED <<builder, world, standard_materials, elapsed, updated, host_ops,
                   eligible, exposed, retry>>

\* No sync point between the two systems: cleanup runs on the world as the
\* traversal found it, the traversal's commands are dropped.
Sync1_NoFlush ==
    /\ pc = "sync1"
    /\ commands' = <<>>
    /\ pc' = "cleanup"
    /\ UNCHANGED <<builder, world, standard_materials, line_boil_materials,
                   elapsed, updated, host_ops, history>>

\* The sync point the scheduler inserts for cleanup.after(apply).
Sync1 ==
    /\ pc = "sync1"
    /\ LET w == ApplyDeferred(Components, commands)
       IN  /\ mesh_std' = w.std
           /\ mesh_ext' = w.ext
           /\ line_boil_applied' = w.tag
    /\ commands' = <<>>
    /\ pc' = "cleanup"
    /\ UNCHANGED <<builder, spawned, parent, line_boil, standard_materials,
                   line_boil_materials, elapsed, updated, host_ops, history>>

RECURSIVE RemoveCommands(_)
RemoveCommands(S) ==
    IF S = {} THEN <<>>
    ELSE LET n == CHOOSE x \in S : \A y \in S : x <= y
         IN  <<RemoveCommand(n)>> \o RemoveCommands(S \ {n})

cleanup_old_materials == RemoveCommands(cleanup_query)

CleanupSystem ==
    /\ pc = "cleanup"
    /\ commands' = cleanup_old_materials
    /\ pc' = "sync2"
    /\ UNCHANGED <<builder, world, standard_materials, line_boil_materials, elapsed,
                   updated, host_ops, history>>

\* The sync point at the end of the schedule.
Sync2 ==
    /\ pc = "sync2"
    /\ LET w == ApplyDeferred(Components, commands)
       IN  /\ mesh_std' = w.std
           /\ mesh_ext' = w.ext
           /\ line_boil_applied' = w.tag
    /\ commands' = <<>>
    /\ pc' = "end"
    /\ UNCHANGED <<builder, spawned, parent, line_boil, standard_materials,
                   line_boil_materials, elapsed, updated, host_ops, history>>

\* update_line_boil_time is not ordered against the other two systems: it
\* runs once per tick, before apply, between apply and cleanup, or after
\* cleanup.  (A sync point touches no asset store and the updater no
\* component, so which side of a sync point it runs on makes no difference.)
UpdateSystem ==
    /\ pc \in {"apply", "cleanup", "end"}
    /\ ~updated
    /\ line_boil_materials' = update_line_boil_time(line_boil_materials, elapsed)
    /\ updated' = TRUE
    /\ UNCHANGED <<builder, world, standard_materials, elapsed, commands, pc, host_ops,
                   history>>

EndTick ==
    /\ pc = "end"
    /\ updated
    /\ pc' = "idle"
    /\ updated' = FALSE
    /\ eligible' = {}
    /\ exposed' = {}
    /\ retry' = {}
    /\ visits' = [n \in Node |-> 0]
    /\ UNCHANGED <<builder, world, standard_materials, line_boil_materials, elapsed,
                   commands, host_ops, created, deferred>>

Next ==
    \/ \E p \in 0..MaxNodes : Spawn(p)
    \/ \E n \in Node, m \in MarkerChoices : InsertMarker(n, m)
    \/ \E n \in Node : RemoveMarker(n)
    \/ \E n \in Node, h \in Handle : AttachBase(n, h)
    \/ \E h \in Handle : LoadAsset(h)
    \/ \E t \in 0..MaxTime : BeginTick(t)
    \/ \E order \in RootOrders : ApplySystem(order)
    \/ Sync1
    \/ CleanupSystem
    \/ Sync2
    \/ UpdateSystem
    \/ EndTick

Spec == Init /\ [][Next]_vars

\* A step of the running tick.  The Update schedule runs each of its
\* systems and sync points to completion: no system of the plugin blocks,
\* so a tick that has begun is not left standing.
TickStep ==
    \/ \E order \in RootOrders : ApplySystem(order)
    \/ Sync1
    \/ CleanupSystem
    \/ Sync2
    \/ UpdateSystem
    \/ EndTick

FairSpec == Spec /\ WF_vars(TickStep)

\* ---- the client building a LineBoil value: constructors and with_* calls
CallDefault ==
    /\ builder' = Constructed("default", LineBoilSettings_default)
    /\ UNCHANGED scene

CallNew ==
    /\ builder' = Constructed("new", LineBoil_new)
    /\ UNCHANGED scene

CallAggressive ==
    /\ builder' = Constructed("aggressive", LineBoil_aggressive)
    /\ UNCHANGED scene

CallSubtle ==
    /\ builder' = Constructed("subtle", LineBoil_subtle)
    /\ UNCHANGED scene

CallWithIntensity(v) ==
    /\ builder' = [builder EXCEPT !.value = with_intensity(@, v),
                                  !.set = @ \cup {"intensity"}]
    /\ UNCHANGED scene

CallWithFrameRate(v) ==
    /\ builder' = [builder EXCEPT !.value = with_frame_rate(@, v),
                                  !.set = @ \cup {"frame_rate"}]
    /\ UNCHANGED scene

CallWithNoiseFrequency(v) ==
    /\ builder' = [builder EXCEPT !.value = with_noise_frequency(@, v),
                                  !.set = @ \cup {"noise_frequency"}]
    /\ UNCHANGED scene

CallWithSeed(v) ==
    /\ builder' = [builder EXCEPT !.value = with_seed(@, v),
                                  !.set = @ \cup {"seed"}]
    /\ UNCHANGED scene

BuilderNext ==
    \/ CallDefault
    \/ CallNew
    \/ CallAggressive
    \/ CallSubtle
    \/ \E v \in BuilderInputs : CallWithIntensity(v)
    \/ \E v \in BuilderInputs : CallWithFrameRate(v)
    \/ \E v \in BuilderInputs : CallWithNoiseFrequency(v)
    \/ \E v \in BuilderInputs : CallWithSeed(v)

BuilderSpec == Init /\ [][BuilderNext]_vars

\* ---- positions of a tick
\* The traversal of this tick has run and its commands are applied.
TraversalApplied == pc \in {"cleanup", "sync2", "end"}

\* The tick is over: all three systems have run, all commands are applied.
TickDone == pc = "end" /\ updated

\* ---- C1
\* C1: once the traversal of a tick has run and its commands are applied,
\* another run of apply_line_boil_to_marked_entities (in any root order)
\* adds nothing to the registry and queues no command, so that the sync
\* point after it leaves every tag and every material reference as it is.
C1_Idempotent ==
    TraversalApplied =>
        \A order \in RootOrders :
            LET r == apply_line_boil_to_marked_entities(order)
            IN  /\ r.materials = line_boil_materials
                /\ r.commands = <<>>
                /\ ApplyDeferred(Components, r.commands) = Components

\* A first pass that converted a node has been applied.
C1_Witness ==
    /\ pc = "cleanup"
    /\ \E n \in eligible : line_boil_applied[n] /\ mesh_ext[n] # 0

\* ---- C2
\* The settings of the composed material n refers to.
MaterialOf(n) == line_boil_materials[mesh_ext[n]].settings

ProperDescendant(n, r) == r \in AncestorsOrSelf(n) \ {n}

\* C2 as stated: at the end of a tick, for every marked root r with
\* parameters P, every descendant that exposed a resolvable base-material
\* reference in the tick carries the tag and a composed material with P.
C2_Original ==
    TickDone =>
        \A r \in root_query : \A n \in exposed :
            ProperDescendant(n, r) =>
                /\ line_boil_applied[n]
                /\ mesh_ext[n] # 0
                /\ Params(MaterialOf(n)) = Params(line_boil[r][1])

\* C2 (amended): at the end of a tick every node below (or at) a marked
\* root that exposed a resolvable base-material reference in the tick
\* carries the tag and a composed material; when the node was untagged as
\* the tick began, the material's parameters are those of a marker above
\* the node.
C2_Completeness ==
    TickDone =>
        /\ \A n \in exposed :
              MarkedAbove(n) # {} => line_boil_applied[n] /\ mesh_ext[n] # 0
        /\ \A n \in eligible :
              /\ line_boil_applied[n]
              /\ mesh_ext[n] # 0
              /\ \E r \in MarkedAbove(n) :
                    Params(MaterialOf(n)) = Params(line_boil[r][1])

\* A child of a marked root was converted in this tick.
C2_Witness ==
    /\ TickDone
    /\ \E n \in eligible :
          /\ parent[n] # 0
          /\ line_boil[parent[n]] # <<>>
          /\ line_boil_applied[n]

\* ---- C3
\* C3: after cleanup_old_materials has run and its removals are applied, no
\* node carries both LineBoilApplied and a base-material reference.
C3_NoDoubleReference ==
    pc = "end" =>
        \A n \in Alive : ~(line_boil_applied[n] /\ mesh_std[n] # 0)

\* Cleanup has removed a base reference the host attached to a node that
\* was already tagged when the tick began.
C3_Witness ==
    /\ pc = "end"
    /\ \E n \in exposed \ eligible : line_boil_applied[n] /\ mesh_std[n] = 0

\* ---- C4
\* C4 as stated: after a tick every composed material in the registry, the
\* ones created in that tick included, has its time equal to the tick's
\* elapsed-time sample.
C4_TimeTracking ==
    TickDone =>
        \A i \in DOMAIN line_boil_materials :
            line_boil_materials[i].settings.time = elapsed

\* ---- C5
\* C5: a node below a marked root whose base reference did not resolve
\* when the traversal ran is, at the end of that tick, untagged, still holds
\* the reference and has no composed material; a node skipped like that in
\* the previous tick whose reference resolves in this tick is converted and
\* tagged by the end of this tick.
C5_Deferred ==
    TickDone =>
        /\ \A n \in deferred :
              /\ ~line_boil_applied[n]
              /\ mesh_std[n] # 0
              /\ mesh_ext[n] = 0
              /\ created[n] = 0
        /\ \A n \in retry :
              /\ line_boil_applied[n]
              /\ mesh_ext[n] # 0
              /\ mesh_std[n] = 0
              /\ created[n] > 0

\* A node skipped in the previous tick has been converted in this one,
\* while another node is (still) skipped.
C5_Witness ==
    /\ TickDone
    /\ \E n \in retry : line_boil_applied[n]

\* ---- C6
\* r is the only marked node above n.
OnlyRoot(n, r) == MarkedAbove(n) = {r} /\ r # n

\* C6 as stated: where only the root r carries the marker, every composed
\* material on a descendant has the parameters of r's marker, whichever
\* tick the descendant was converted in.
C6_Original ==
    TickDone =>
        \A n \in Alive : \A r \in Alive :
            (OnlyRoot(n, r) /\ mesh_ext[n] # 0) =>
                Params(MaterialOf(n)) = Params(line_boil[r][1])

\* C6 (amended): where only the root r carries the marker, every composed
\* material installed on a descendant in a tick has the parameters r's
\* marker has in that tick, at every depth.
C6_Propagation ==
    TraversalApplied =>
        \A n \in eligible : \A r \in Alive :
            OnlyRoot(n, r) =>
                /\ mesh_ext[n] # 0
                /\ Params(MaterialOf(n)) = Params(line_boil[r][1])

\* A grandchild of the only marked root was converted in this tick.
C6_Witness ==
    /\ TickDone
    /\ \E n \in eligible :
          /\ parent[n] # 0
          /\ parent[parent[n]] # 0
          /\ OnlyRoot(n, parent[parent[n]])
          /\ mesh_ext[n] # 0

\* ---- C7
\* C7 as stated: the traversal inserts at most one composed material into
\* the registry for any node, so the registry never holds more composed
\* materials than there are processed nodes.
C7_AtMostOnce ==
    /\ \A n \in Node : created[n] <= 1
    /\ TraversalApplied =>
          Len(line_boil_materials)
              <= Cardinality({n \in Alive : line_boil_applied[n]})

\* ---- C8
\* C8: between ticks a node carries LineBoilApplied exactly if a composed
\* material was created and installed for it, and exactly if it holds a
\* composed-material reference.
C8_TagInvariant ==
    pc = "idle" =>
        \A n \in Node :
            /\ line_boil_applied[n] <=> created[n] > 0
            /\ line_boil_applied[n] <=> mesh_ext[n] # 0

\* Between ticks: one node is tagged, another has a base reference and is
\* not.
C8_Witness ==
    /\ pc = "idle"
    /\ \E n \in Alive : line_boil_applied[n] /\ mesh_ext[n] # 0
    /\ \E n \in Alive : ~line_boil_applied[n] /\ mesh_std[n] # 0

\* ---- C9
\* C9: no step removes a composed material or changes its base snapshot or
\* its intensity, frame_rate, noise_frequency or seed; a step that changes
\* its time is the step of update_line_boil_time.
C9_Frozen ==
    [][/\ Len(line_boil_materials') >= Len(line_boil_materials)
       /\ \A i \in DOMAIN line_boil_materials :
             /\ line_boil_materials'[i].base = line_boil_materials[i].base
             /\ Params(line_boil_materials'[i].settings)
                    = Params(line_boil_materials[i].settings)
             /\ line_boil_materials'[i].settings.time
                    # line_boil_materials[i].settings.time
                  => ~updated /\ updated']_vars

\* A tick has ended for a node whose composed material has had its time
\* set by the updater and whose root marker was changed after the
\* conversion.
C9_Witness ==
    /\ TickDone
    /\ \E n \in Alive : \E r \in MarkedAbove(n) :
          /\ line_boil_applied[n]
          /\ mesh_ext[n] # 0
          /\ MarkedAbove(n) = {r}
          /\ MaterialOf(n).time # 0
          /\ Params(MaterialOf(n)) # Params(line_boil[r][1])

\* ---- C10
\* C10: a node that carries the tag and a composed-material reference
\* keeps both, unchanged, in every step, and the registry entry it refers
\* to stays in the registry with its base and parameters.
C10_Persistence ==
    [][\A n \in Alive :
          (line_boil_applied[n] /\ mesh_ext[n] # 0) =>
              /\ line_boil_applied'[n]
              /\ mesh_ext'[n] = mesh_ext[n]
              /\ mesh_ext[n] \in DOMAIN line_boil_materials'
              /\ line_boil_materials'[mesh_ext[n]].base
                     = line_boil_materials[mesh_ext[n]].base
              /\ Params(line_boil_materials'[mesh_ext[n]].settings)
                     = Params(line_boil_materials[mesh_ext[n]].settings)]_vars

\* A tick has run to its end for a tagged node after the marker above it
\* was removed; the host had attached a base reference to it again.
C10_Witness ==
    /\ TickDone
    /\ \E n \in exposed :
          /\ line_boil_applied[n]
          /\ mesh_ext[n] # 0
          /\ MarkedAbove(n) = {}

\* ---- C11
\* C11: a LineBoil fresh from aggressive() is {0.04, 4.0, 12.0, 0.0}, from
\* subtle() {0.008, 8.0, 6.0, 0.0}, from new() or default()
\* {0.02, 6.0, 8.0, 0.0} (intensity, frame_rate, noise_frequency, seed, in
\* thousandths), each with time 0.0.
C11_PresetLiterals ==
    builder.set = {} =>
        /\ builder.ctor = "aggressive" =>
              builder.value = [intensity |-> 40, frame_rate |-> 4000,
                               noise_frequency |-> 12000, seed |-> 0,
                               time |-> 0]
        /\ builder.ctor = "subtle" =>
              builder.value = [intensity |-> 8, frame_rate |-> 8000,
                               noise_frequency |-> 6000, seed |-> 0,
                               time |-> 0]
        /\ builder.ctor \in {"new", "default"} =>
              builder.value = [intensity |-> 20, frame_rate |-> 6000,
                               noise_frequency |-> 8000, seed |-> 0,
                               time |-> 0]

\* The client holds a LineBoil fresh from aggressive().
C11_Witness == builder.ctor = "aggressive" /\ builder.set = {}

\* ---- C12
\* The registry a tick leaves behind when update_line_boil_time runs after
\* the traversal (between it and cleanup, or after cleanup: cleanup does not
\* touch the registry), and when it runs before the traversal.
RegistryUpdaterAfter(order) ==
    update_line_boil_time(apply_line_boil_to_marked_entities(order).materials,
                          elapsed)

RegistryUpdaterBefore(order) ==
    TraverseRoots(order,
        StartOfRun(update_line_boil_time(line_boil_materials, elapsed))).materials

\* C12: at the start of a tick, whatever position the scheduler gives
\* update_line_boil_time relative to the traversal and cleanup, the tick
\* ends with the same registry contents, time fields included (tags and
\* references are not touched by the updater).
C12_PositionIndependence ==
    (pc = "apply" /\ ~updated) =>
        \A order \in RootOrders :
            RegistryUpdaterBefore(order) = RegistryUpdaterAfter(order)

\* ---- C13
\* C13: in every tick the traversal is followed by its sync point and only
\* then by cleanup_old_materials (cleanup becomes runnable by that sync
\* point and by nothing else); when cleanup runs, none of the traversal's
\* commands is still queued and every node the traversal converted in this
\* tick carries the processed tag and its composed material, so it is within
\* the With<LineBoilApplied> scope of cleanup's query; cleanup queues its
\* removals from that world.
C13_CleanupOrdering ==
    [][/\ (pc = "apply" /\ pc' # pc) => pc' = "sync1"
       /\ (pc' = "cleanup" /\ pc # "cleanup") => pc = "sync1"
       /\ (pc = "cleanup" /\ pc' # pc) =>
             /\ pc' = "sync2"
             /\ commands = <<>>
             /\ \A n \in eligible : line_boil_applied[n] /\ mesh_ext[n] # 0
             /\ commands' = RemoveCommands({n \in Alive :
                                 line_boil_applied[n] /\ mesh_std[n] # 0})]_vars

\* cleanup has just run in a tick whose traversal converted a node.
C13_Witness ==
    /\ pc = "sync2"
    /\ \E n \in eligible : line_boil_applied[n] /\ mesh_std[n] = 0

\* ---- C14
\* The handle of the first replace command queued for n, i.e. of the
\* material made by the root whose traversal reached n first (0: none).
RECURSIVE FirstHandleFor(_, _)
FirstHandleFor(n, q) ==
    IF q = <<>> THEN 0
    ELSE IF Head(q).entity = n THEN Head(q).handle
    ELSE FirstHandleFor(n, Tail(q))

\* C14 as stated: when the traversal's commands are applied, a node the
\* traversal converted (from one marked root or from several) refers to a
\* composed material with the parameters of the root that reached it first.
C14_FirstRootWins ==
    [][(pc = "sync1" /\ pc' = "cleanup") =>
          \A n \in Alive :
              CountFor(n, commands) > 0 =>
                  Params(line_boil_materials[mesh_ext'[n]].settings) =
                  Params(line_boil_materials[FirstHandleFor(n, commands)].settings)]_vars

\* ---- C15
\* C15 as stated: once the marker above a processed node is gone, a base
\* reference the host attached to the node again (resolvable when the tick
\* began) is still there when the tick's cleanup is done.
C15_Original ==
    pc = "end" =>
        \A n \in exposed :
            (line_boil_applied[n] /\ MarkedAbove(n) = {}) => mesh_std[n] # 0

\* C15 (amended): cleanup does not look at markers.  When the tick's
\* cleanup is done, a processed node with no marker left at or above it has
\* no base reference, just like any other processed node; it keeps its tag
\* and its composed material.
C15_CleanupGoesOn ==
    pc = "end" =>
        \A n \in Alive :
            (line_boil_applied[n] /\ MarkedAbove(n) = {}) =>
                mesh_std[n] = 0 /\ mesh_ext[n] # 0

\* A processed node whose marker is gone began the tick with a base
\* reference attached again, and cleanup has removed it.
C15_Witness ==
    /\ pc = "end"
    /\ root_query = {}
    /\ \E n \in exposed : line_boil_applied[n] /\ mesh_std[n] = 0

\* ---- C16
\* The nodes carrying both the processed tag and a base reference.
TaggedWithBase == {n \in Alive : line_boil_applied[n] /\ mesh_std[n] # 0}

\* C16: the run of cleanup_old_materials queues one removal for each node
\* of TaggedWithBase and changes nothing in the world or the registry; the
\* sync point after it clears the base reference of exactly those nodes and
\* changes no tag, no composed-material reference, no registry entry and no
\* other node; the traversal queues no conversion for a node that already
\* carries the tag, base reference or not; and once cleanup's removals are
\* applied, another run of cleanup queues nothing.
C16_CleanupFrame ==
    [][/\ (pc = "cleanup" /\ pc' = "sync2") =>
             /\ \A n \in Node :
                   CountFor(n, commands') = IF n \in TaggedWithBase THEN 1 ELSE 0
             /\ \A i \in DOMAIN commands' : commands'[i].kind = "remove_std"
             /\ UNCHANGED <<world, line_boil_materials, standard_materials>>
       /\ (pc = "sync2" /\ pc' = "end") =>
             /\ mesh_std' = [n \in Node |->
                               IF n \in TaggedWithBase THEN 0 ELSE mesh_std[n]]
             /\ UNCHANGED <<spawned, parent, line_boil, mesh_ext,
                            line_boil_applied, line_boil_materials,
                            standard_materials, created>>
             /\ cleanup_old_materials' = <<>>
       /\ (pc = "apply" /\ pc' = "sync1") =>
             \A n \in Alive :
                 line_boil_applied[n] => CountFor(n, commands') = 0]_vars

\* cleanup has queued a removal for a processed node the host gave a base
\* reference again, next to a node that is not processed.
C16_Witness ==
    /\ pc = "sync2"
    /\ commands # <<>>
    /\ \E n \in Alive : ~line_boil_applied[n]

\* ---- C17
\* The traversal of this tick has run.
TraversalRan == pc \in {"sync1", "cleanup", "sync2", "end"}

\* C17: the traversal of a tick ends having entered each node once for
\* every marked root the node lies at or below (and no node outside the
\* marked subtrees); it can run whatever the world holds, unresolved
\* references included; and a tick that has begun always comes to its end.
C17_Termination ==
    /\ [](TraversalRan =>
            \A n \in Node :
                visits[n] = IF n \in Alive THEN Cardinality(MarkedAbove(n))
                            ELSE 0)
    /\ [](pc = "apply" => ENABLED (\E order \in RootOrders : ApplySystem(order)))
    /\ (pc # "idle") ~> (pc = "idle")

\* A tick is over whose traversal met an unresolved base reference and
\* entered a node below two marked roots twice.
C17_Witness ==
    /\ TickDone
    /\ deferred # {}
    /\ \E n \in Alive : visits[n] = 2 /\ Cardinality(MarkedAbove(n)) = 2

\* ---- C18
\* n is not processed and no marked entity is at or above it.
Outside(n) == n \in Alive /\ ~line_boil_applied[n] /\ MarkedAbove(n) = {}

\* C18: no step tags a node that is not processed and has no marker at or
\* above it, gives it a composed material or converts it, and no step of a
\* tick changes its base reference.  (A root's untagged descendants are
\* such nodes from the moment its marker is removed.)
C18_OutsideUntouched ==
    [][\A n \in Node :
          Outside(n) =>
              /\ ~line_boil_applied'[n]
              /\ mesh_ext'[n] = mesh_ext[n]
              /\ created'[n] = created[n]
              /\ pc # "idle" => mesh_std'[n] = mesh_std[n]]_vars

\* A tick is over that converted a node below a marker and left alone a
\* node with a resolvable base reference outside every marked subtree.
C18_Witness ==
    /\ TickDone
    /\ \E m \in eligible : line_boil_applied[m]
    /\ \E n \in exposed : Outside(n) /\ mesh_std[n] # 0 /\ mesh_ext[n] = 0

\* ---- C19
\* a lies on the traversal's path to n: at or below a marked entity, above n.
OnPath(a, n) == ProperDescendant(n, a) /\ MarkedAbove(a) # {}

\* C19 as stated: a marked node that began the tick unprocessed with a
\* resolvable base reference ends it tagged, with a composed material that
\* has its own marker's parameters.
C19_Original ==
    TickDone =>
        \A n \in eligible :
            line_boil[n] # <<>> =>
                /\ line_boil_applied[n]
                /\ mesh_ext[n] # 0
                /\ Params(MaterialOf(n)) = Params(line_boil[n][1])

\* C19 (amended): such a node ends the tick tagged, with a composed
\* material that has the parameters of a marker at or above it: its own
\* when no other marked node is above it.  And a node below a path node
\* that is not converted in the tick (already processed, without base
\* reference or with an unresolvable one) is converted all the same.
C19_RootConverted ==
    TickDone =>
        /\ \A n \in eligible :
              line_boil[n] # <<>> =>
                  /\ line_boil_applied[n]
                  /\ mesh_ext[n] # 0
                  /\ \E r \in MarkedAbove(n) :
                        Params(MaterialOf(n)) = Params(line_boil[r][1])
                  /\ MarkedAbove(n) = {n} =>
                        Params(MaterialOf(n)) = Params(line_boil[n][1])
        /\ \A n \in eligible :
              (\E a \in Alive : OnPath(a, n) /\ a \notin eligible) =>
                  /\ line_boil_applied[n]
                  /\ mesh_ext[n] # 0
                  /\ \E r \in MarkedAbove(n) :
                        Params(MaterialOf(n)) = Params(line_boil[r][1])

\* A tick is over that converted a node whose parent is a marked root
\* converted in an earlier tick with its own marker's parameters.
C19_Witness ==
    /\ TickDone
    /\ \E m \in eligible :
          /\ line_boil_applied[m]
          /\ parent[m] # 0
          /\ parent[m] \notin eligible
          /\ line_boil[parent[m]] # <<>>
          /\ line_boil_applied[parent[m]]
          /\ Params(MaterialOf(parent[m])) = Params(line_boil[parent[m]][1])

====
